---- MODULE Spec2Model ----
(***************************************************************************)
(* python-downstream/main.py: GET / forwards one request to the upstream   *)
(* service through a tenacity retry wrapper (_call_upstream) and shapes    *)
(* the final result into a response body (call_upstream).                  *)
(*                                                                         *)
(* A request is a coroutine; it is modelled by the segments between its    *)
(* two suspension points: awaiting the upstream response (pc = "ATTEMPT")  *)
(* and awaiting the inter-attempt sleep (pc = "WAIT").                     *)
(* Time is counted in microseconds.                                        *)
(***************************************************************************)
EXTENDS Integers, Sequences, FiniteSets, TLC

VARIABLES
    pc,              \* per request: "ABSENT", "START", "ATTEMPT", "WAIT", "STOP"
    attempts,        \* the cells `attempts[0]` created at main.py:55
    attempt_number,  \* tenacity's own per-call counter (RetryCallState)
    calls,           \* upstream calls issued for the request (respx call_count)
    seen,            \* the upstream results delivered to the request, in order
    waits,           \* inter-attempt sleeps completed by the request
    elapsed,         \* microseconds of wall clock since `start` (main.py:54);
                     \* time.time() is taken to advance and not to be set back
    out,             \* what the handler produced: a body, or an exception
    health_calls,    \* requests to GET /health answered so far
    health_out,      \* the last answer of GET /health
    shared           \* the module globals: RETRYABLE_STATUS_CODES,
                     \* UPSTREAM_URL, http_client, and the retry policy
                     \* object built by @retry

vars == <<pc, attempts, attempt_number, calls, seen, waits, elapsed, out,
          health_calls, health_out, shared>>

\* the state of the requests to GET /
request_vars == <<pc, attempts, attempt_number, calls, seen, waits, elapsed, out>>

----------------------------------------------------------------------------
(* Bounds and program constants *)

NReq == 2

\* cap on the upstream calls of one request (never reached: the budget is 3)
MaxCalls == 4

\* cap on the requests to GET /health
MaxHealth == 2

max_attempts == 3

\* a delay of 0.05 s
wait_us_short == 50 * 1000

wait_us == 500000

\* 504 left out of the retryable set
RetryableWithout504 == {500, 502, 503}

RETRYABLE_STATUS_CODES == {500, 502, 503, 504}

Reqs == 1 .. NReq

----------------------------------------------------------------------------
(* The consumed interface: what one http_client.get can produce *)

Resp(code, body) ==
    [kind |-> "response", exc |-> "none", code |-> code, body |-> body]

Exc(name, msg) ==
    [kind |-> "exception", exc |-> name, code |-> 0, body |-> msg]

JsonHello == "{\"msg\": \"hello\"}"

JsonRecovered == "{\"msg\": \"recovered\"}"

PlainText == "Service Unavailable"

StatusCodes == {100, 200, 201, 301, 400, 404, 500, 501, 502, 503, 504}

Bodies == {JsonHello, JsonRecovered, PlainText}

Responses == {Resp(c, b) : c \in StatusCodes, b \in Bodies}

TransportExceptions ==
    {"ConnectError", "ReadTimeout", "ConnectTimeout", "WriteTimeout",
     "PoolTimeout", "ReadError", "RemoteProtocolError"}

\* str(e) of the exception
Message(e) ==
    CASE e = "ConnectError"   -> "refused"
      [] e = "CancelledError" -> ""
      [] e \in {"ReadError", "RemoteProtocolError"} -> "connection broken"
      [] OTHER                -> "timed out"

\* CancelledError: the caller cancels the request while the GET is awaited
Raised == {Exc(e, Message(e)) : e \in TransportExceptions \cup {"CancelledError"}}

AllResults == Responses \cup Raised

ConcResults ==
    {Exc("ConnectError", Message("ConnectError")), Resp(503, PlainText),
     Resp(200, JsonHello), Resp(404, PlainText)}

Latencies == {0, 1500}

ConcLatencies == {0}

\* microseconds by which asyncio.sleep(0.5) lasts longer than asked
Overshoots == {0, 700}

ConcOvershoots == {0}

\* one result of each class, for the runs that check progress
LiveResults ==
    {Resp(200, JsonHello), Resp(200, PlainText), Resp(301, PlainText),
     Resp(404, PlainText), Resp(500, PlainText), Resp(503, JsonHello),
     Exc("ConnectError", Message("ConnectError")),
     Exc("ReadTimeout", Message("ReadTimeout")),
     Exc("ConnectTimeout", Message("ConnectTimeout")),
     Exc("CancelledError", Message("CancelledError"))}

----------------------------------------------------------------------------
(* Exception classes: the bases an except clause or retry_if_exception_type
   matches through (httpx, tenacity, json, asyncio) *)

Base(e) ==
    CASE e = "ConnectError"        -> "NetworkError"
      [] e = "ReadError"           -> "NetworkError"
      [] e = "ReadTimeout"         -> "TimeoutException"
      [] e = "ConnectTimeout"      -> "TimeoutException"
      [] e = "WriteTimeout"        -> "TimeoutException"
      [] e = "PoolTimeout"         -> "TimeoutException"
      [] e = "RemoteProtocolError" -> "ProtocolError"
      [] e = "NetworkError"        -> "TransportError"
      [] e = "TimeoutException"    -> "TransportError"
      [] e = "ProtocolError"       -> "TransportError"
      [] e = "TransportError"      -> "RequestError"
      [] e = "RequestError"        -> "HTTPError"
      [] e = "HTTPStatusError"     -> "HTTPError"
      [] e = "HTTPError"           -> "Exception"
      [] e = "RetryError"          -> "Exception"
      [] e = "JSONDecodeError"     -> "ValueError"
      [] e = "ValueError"          -> "Exception"
      [] e = "Exception"           -> "BaseException"
      [] e = "CancelledError"      -> "BaseException"
      [] OTHER                     -> "object"

Classes ==
    {"ConnectError", "ReadError", "ReadTimeout", "ConnectTimeout",
     "WriteTimeout", "PoolTimeout", "RemoteProtocolError", "NetworkError",
     "TimeoutException", "ProtocolError", "TransportError", "RequestError",
     "HTTPStatusError", "HTTPError", "RetryError", "JSONDecodeError",
     "ValueError", "Exception", "CancelledError", "BaseException", "object"}

\* each class with its bases up to object (the longest chain has 7 bases)
Mro ==
    [c \in Classes |->
        LET b1 == Base(c)
            b2 == Base(b1)
            b3 == Base(b2)
            b4 == Base(b3)
            b5 == Base(b4)
            b6 == Base(b5)
            b7 == Base(b6)
        IN  {c, b1, b2, b3, b4, b5, b6, b7}]

\* isinstance(e, classes)
IsInstance(e, classes) == Mro[e] \cap classes # {}

----------------------------------------------------------------------------
(* The retry policy of _call_upstream (main.py:38-46) *)

\* every 5xx taken as retryable
is_server_error_any_5xx(response) == response.code >= 500

\* reads the module global when it is called
is_server_error(response) == response.code \in shared.RETRYABLE_STATUS_CODES

\* only ConnectError retried, ReadTimeout left out
retry_predicate_connect_only(res) ==
    IF res.kind = "exception"
    THEN IsInstance(res.exc, {"ConnectError"})
    ELSE is_server_error(res)

\* retry_if_exception_type((ConnectError, ReadTimeout)) | retry_if_result(...)
retry_predicate(res) ==
    IF res.kind = "exception"
    THEN IsInstance(res.exc, {"ConnectError", "ReadTimeout"})
    ELSE is_server_error(res)

\* the budget test never true
stop_after_attempt_never(n) == FALSE

\* the budget test off by one
stop_after_attempt_late(n) == n > max_attempts

stop_after_attempt(n) == n >= shared.stop

\* reraise left at its default
ReraiseOff == FALSE

\* reraise=True (main.py:45)
Reraise == TRUE

\* What the wrapper does once attempt number n has produced res: hand the
\* response back, raise, or sleep and try again.  With reraise=True an
\* exhausted budget re-raises the last attempt's exception, and raises
\* RetryError when the last attempt returned a (retryable) response.
RetryStep(res, n) ==
    IF ~retry_predicate(res)
    THEN IF res.kind = "exception"
         THEN [do |-> "raise", exc |-> res.exc, res |-> res]
         ELSE [do |-> "return", exc |-> "none", res |-> res]
    ELSE IF stop_after_attempt(n)
         THEN IF Reraise /\ res.kind = "exception"
              THEN [do |-> "raise", exc |-> res.exc, res |-> res]
              ELSE [do |-> "raise", exc |-> "RetryError", res |-> res]
         ELSE [do |-> "sleep", exc |-> "none", res |-> res]

----------------------------------------------------------------------------
(* The handler call_upstream (main.py:52-109) *)

\* only 4xx and 5xx taken as errors
is_success_below_400(response) == response.code < 400

\* success taken to be status 200 alone
is_success_only_200(response) == response.code = 200

\* httpx.Response.raise_for_status: returns for 2xx, raises HTTPStatusError
\* for every other status (1xx and 3xx included)
is_success(response) == response.code >= 200 /\ response.code <= 299

\* httpx.Response.json
IsJson(body) == body \in {JsonHello, JsonRecovered}

Json(body) ==
    CASE body = JsonHello     -> [msg |-> "hello"]
      [] body = JsonRecovered -> [msg |-> "recovered"]
      [] OTHER                -> [msg |-> "undecodable"]

\* round((time.time() - start) * 1000): Python rounds halves to even
RoundMs(us) ==
    LET q == us \div 1000
        rem == us % 1000
    IN  IF rem < 500 THEN q
        ELSE IF rem > 500 THEN q + 1
        ELSE IF q % 2 = 0 THEN q ELSE q + 1

\* the attempt count reported as the retry count
RetriesIsAttempts(cell) == cell

Retries(cell) == cell - 1

NoBody == <<>>

Returned(body) == [kind |-> "body", exc |-> "none", body |-> body]

Propagated(exc) == [kind |-> "raise", exc |-> exc, body |-> NoBody]

NoError == [text |-> "", code |-> 0, msg |-> ""]

\* an error body built without its retries field
ErrorBodyNoRetries(error, status, cell, us) ==
    [source     |-> "python-downstream",
     error      |-> error,
     elapsed_ms |-> RoundMs(us),
     status     |-> status]

ErrorBody(error, status, cell, us) ==
    [source     |-> "python-downstream",
     error      |-> error,
     elapsed_ms |-> RoundMs(us),
     status     |-> status,
     retries    |-> Retries(cell)]

OkBody(upstream_data, cell, us) ==
    [source     |-> "python-downstream",
     upstream   |-> upstream_data,
     elapsed_ms |-> RoundMs(us),
     status     |-> "ok",
     retries    |-> Retries(cell)]

\* the except clauses with the RetryError branch naming the last status code
ExceptNamingLastCode(exc, res, cell, us) ==
    IF IsInstance(exc, {"RetryError"})
    THEN Returned(ErrorBody(
             [NoError EXCEPT !.text = "Upstream returned ", !.code = res.code],
             "upstream_error", cell, us))
    ELSE IF IsInstance(exc, {"ConnectError"})
    THEN Returned(ErrorBody(
             [NoError EXCEPT !.text = "Connection error: ", !.msg = res.body],
             "upstream_unreachable", cell, us))
    ELSE IF IsInstance(exc, {"ReadTimeout"})
    THEN Returned(ErrorBody(
             [NoError EXCEPT !.text = "Upstream read timeout (5s)"],
             "timeout", cell, us))
    ELSE IF IsInstance(exc, {"HTTPStatusError"})
    THEN Returned(ErrorBody(
             [NoError EXCEPT !.text = "Upstream returned ", !.code = res.code],
             "upstream_error", cell, us))
    ELSE Propagated(exc)

\* the except clauses, in source order
Except(exc, res, cell, us) ==
    IF IsInstance(exc, {"RetryError"})
    THEN Returned(ErrorBody(
             [NoError EXCEPT !.text = "Upstream returned server error after retries"],
             "upstream_error", cell, us))
    ELSE IF IsInstance(exc, {"ConnectError"})
    THEN Returned(ErrorBody(
             [NoError EXCEPT !.text = "Connection error: ", !.msg = res.body],
             "upstream_unreachable", cell, us))
    ELSE IF IsInstance(exc, {"ReadTimeout"})
    THEN Returned(ErrorBody(
             [NoError EXCEPT !.text = "Upstream read timeout (5s)"],
             "timeout", cell, us))
    ELSE IF IsInstance(exc, {"HTTPStatusError"})
    THEN Returned(ErrorBody(
             [NoError EXCEPT !.text = "Upstream returned ", !.code = res.code],
             "upstream_error", cell, us))
    ELSE Propagated(exc)

\* the handler from the point where `await _call_upstream(attempts)` ends
\* (step.do is "return" or "raise"), with attempts[0] = cell
Finish(step, cell, us) ==
    IF step.do = "raise"
    THEN Except(step.exc, step.res, cell, us)
    ELSE IF ~is_success(step.res)
    THEN Except("HTTPStatusError", step.res, cell, us)
    ELSE IF ~IsJson(step.res.body)
    THEN Except("JSONDecodeError", step.res, cell, us)
    ELSE Returned(OkBody(Json(step.res.body), cell, us))

----------------------------------------------------------------------------
(* State machine *)

\* one module-level counter cell used by every request
AttemptsCellShared(r) == 1

\* the cell a request's closure increments: `attempts = [0]` is a fresh
\* list per call of the handler (main.py:55), so each request has its own
AttemptsCell(r) == r

Blank == [kind |-> "none", exc |-> "none", body |-> NoBody]

\* the module globals once lifespan has started the service (main.py:16-46)
SharedConfig ==
    [RETRYABLE_STATUS_CODES |-> RETRYABLE_STATUS_CODES,
     UPSTREAM_URL           |-> "http://go-upstream:7000",
     http_client            |-> "AsyncClient(timeout=5.0)",
     stop                   |-> max_attempts,
     wait                   |-> wait_us]

NoAnswer == [code |-> 0, body |-> [status |-> "none"]]

\* a health check that reports what the last request to GET / ended with
HealthFromLastRequest ==
    /\ health_calls < MaxHealth
    /\ health_calls' = health_calls + 1
    /\ health_out' =
           [code |-> 200,
            body |-> [status |-> IF \E r \in Reqs : out[r].kind = "raise"
                                THEN "unhealthy" ELSE "healthy"]]
    /\ UNCHANGED <<request_vars, shared>>

\* GET /health (main.py:112-114): FastAPI answers 200 with the returned dict
Health ==
    /\ health_calls < MaxHealth
    /\ health_calls' = health_calls + 1
    /\ health_out' = [code |-> 200, body |-> [status |-> "healthy"]]
    /\ UNCHANGED <<request_vars, shared>>

InitWith(arrived) ==
    /\ pc = [r \in Reqs |-> IF r \in arrived THEN "START" ELSE "ABSENT"]
    /\ attempts = [r \in Reqs |-> 0]
    /\ attempt_number = [r \in Reqs |-> 0]
    /\ calls = [r \in Reqs |-> 0]
    /\ seen = [r \in Reqs |-> <<>>]
    /\ waits = [r \in Reqs |-> 0]
    /\ elapsed = [r \in Reqs |-> 0]
    /\ out = [r \in Reqs |-> Blank]
    /\ health_calls = 0
    /\ health_out = NoAnswer
    /\ shared = SharedConfig

\* one request in flight
Init == InitWith({1})

\* NReq requests in flight at once
InitConc == InitWith(Reqs)

\* a handler that builds a client of its own and binds the global to it
StartRebindsClient(r) ==
    /\ pc[r] = "START"
    /\ attempts' = [attempts EXCEPT ![AttemptsCell(r)] = 0 + 1]
    /\ attempt_number' = [attempt_number EXCEPT ![r] = 1]
    /\ calls' = [calls EXCEPT ![r] = @ + 1]
    /\ pc' = [pc EXCEPT ![r] = "ATTEMPT"]
    /\ shared' = [shared EXCEPT !.http_client = "AsyncClient of the request"]
    /\ UNCHANGED <<seen, waits, elapsed, out, health_calls, health_out>>

\* main.py:54-57, then the wrapper's first attempt up to its await
\* (main.py:48-49): the counter is incremented, then the GET is issued
Start(r) ==
    /\ pc[r] = "START"
    /\ attempts' = [attempts EXCEPT ![AttemptsCell(r)] = 0 + 1]
    /\ attempt_number' = [attempt_number EXCEPT ![r] = 1]
    /\ calls' = [calls EXCEPT ![r] = @ + 1]
    /\ pc' = [pc EXCEPT ![r] = "ATTEMPT"]
    /\ UNCHANGED <<seen, waits, elapsed, out, health_calls, health_out, shared>>

\* the awaited GET ends with res after lat microseconds; the wrapper
\* classifies it and either starts the sleep or ends, and then the handler
\* runs to its return (or lets an exception out)
Respond(r, res, lat) ==
    /\ pc[r] = "ATTEMPT"
    /\ seen' = [seen EXCEPT ![r] = Append(@, res)]
    /\ elapsed' = [elapsed EXCEPT ![r] = @ + lat]
    /\ LET step == RetryStep(res, attempt_number[r])
       IN  IF step.do = "sleep"
           THEN /\ pc' = [pc EXCEPT ![r] = "WAIT"]
                /\ out' = out
           ELSE /\ pc' = [pc EXCEPT ![r] = "STOP"]
                /\ out' = [out EXCEPT ![r] =
                              Finish(step, attempts[AttemptsCell(r)], elapsed'[r])]
    /\ UNCHANGED <<attempts, attempt_number, calls, waits, health_calls, health_out,
                   shared>>

\* the sleep of wait_fixed(0.5) ends, `over` microseconds late; the next
\* attempt runs up to its await
Wake(r, over) ==
    /\ pc[r] = "WAIT"
    /\ calls[r] < MaxCalls
    /\ elapsed' = [elapsed EXCEPT ![r] = @ + shared.wait + over]
    /\ waits' = [waits EXCEPT ![r] = @ + 1]
    /\ attempt_number' = [attempt_number EXCEPT ![r] = @ + 1]
    /\ attempts' = [attempts EXCEPT ![AttemptsCell(r)] = @ + 1]
    /\ calls' = [calls EXCEPT ![r] = @ + 1]
    /\ pc' = [pc EXCEPT ![r] = "ATTEMPT"]
    /\ UNCHANGED <<seen, out, health_calls, health_out, shared>>

Next ==
    \/ \E r \in Reqs : Start(r)
    \/ \E r \in Reqs : \E res \in AllResults : \E lat \in Latencies :
           Respond(r, res, lat)
    \/ \E r \in Reqs : \E over \in Overshoots : Wake(r, over)
    \/ Health

NextConc ==
    \/ \E r \in Reqs : Start(r)
    \/ \E r \in Reqs : \E res \in ConcResults : \E lat \in ConcLatencies :
           Respond(r, res, lat)
    \/ \E r \in Reqs : \E over \in ConcOvershoots : Wake(r, over)
    \/ Health

NextLive ==
    \/ \E r \in Reqs : Start(r)
    \/ \E r \in Reqs : \E res \in LiveResults : \E lat \in Latencies :
           Respond(r, res, lat)
    \/ \E r \in Reqs : \E over \in Overshoots : Wake(r, over)

\* every awaited GET ends (it is bounded by the 5 s timeout), every sleep
\* ends, and the event loop runs every coroutine that is ready
Fairness ==
    \A r \in Reqs :
        /\ WF_vars(Start(r))
        /\ WF_vars(\E res \in LiveResults : \E lat \in Latencies :
                       Respond(r, res, lat))
        /\ WF_vars(\E over \in Overshoots : Wake(r, over))

Spec == Init /\ [][Next]_vars

SpecConc == InitConc /\ [][NextConc]_vars

SpecLive == Init /\ [][NextLive]_vars /\ Fairness

----------------------------------------------------------------------------
(* Vocabulary of the properties, stated on upstream results as the
   specification names them *)

Last(r) == seen[r][Len(seen[r])]

\* Success(payload, status_code): a 2xx response carrying a JSON payload
Successful(res) ==
    /\ res.kind = "response"
    /\ res.code \in 200 .. 299
    /\ res.body \in {JsonHello, JsonRecovered}

RetryableFailure(res) ==
    \/ res.kind = "exception" /\ res.exc \in {"ConnectError", "ReadTimeout"}
    \/ res.kind = "response" /\ res.code \in {500, 502, 503, 504}

NonRetryableStatus(res) ==
    /\ res.kind = "response"
    /\ res.code \in 400 .. 599
    /\ res.code \notin {500, 502, 503, 504}

Raises(res, name) == res.kind = "exception" /\ res.exc = name

HasStatus(res, code) == res.kind = "response" /\ res.code = code

InFlight(r) == pc[r] \in {"ATTEMPT", "WAIT"}

\* the request has ended after n upstream calls with a body of this status
EndsWith(r, n, status) ==
    /\ pc[r] = "STOP"
    /\ calls[r] = n
    /\ out[r].kind = "body"
    /\ out[r].body.status = status
    /\ out[r].body.retries = n - 1

StatusNames == {"ok", "upstream_unreachable", "timeout", "upstream_error"}

\* the outcome mapping, by the nature of the last attempt
MappedStatus(res) ==
    IF Successful(res) THEN "ok"
    ELSE IF Raises(res, "ConnectError") THEN "upstream_unreachable"
    ELSE IF Raises(res, "ReadTimeout") THEN "timeout"
    ELSE "upstream_error"

----------------------------------------------------------------------------
(* C1: one request issues at least 1 and at most 3 upstream calls; the
   counter is incremented before each call, so it equals the number of calls
   issued whether or not they raise; the reported retries is the number of
   calls issued minus 1, hence in {0, 1, 2}. *)
C1_AttemptsAndRetries ==
    \A r \in Reqs :
        /\ calls[r] <= 3
        /\ pc[r] \in {"ATTEMPT", "WAIT", "STOP"} => calls[r] >= 1
        /\ attempts[r] = calls[r]
        /\ pc[r] = "STOP" => calls[r] = Len(seen[r])
        /\ out[r].kind = "body" =>
               /\ out[r].body.retries = calls[r] - 1
               /\ out[r].body.retries \in {0, 1, 2}

C1_Witness ==
    \E r \in Reqs :
        /\ out[r].kind = "body"
        /\ calls[r] = 3
        /\ out[r].body.retries = 2
        /\ seen[r][1].kind = "exception"
        /\ seen[r][3].kind = "exception"

(* C2: when attempt k returns a successful response after k-1 retryable
   failures of any mix, the request ends with status "ok", retries = k-1,
   upstream = the payload of the k-th response, and exactly k calls. *)
C2_SuccessOnAttemptK ==
    \A r \in Reqs : \A k \in 1 .. 3 :
        ( /\ Len(seen[r]) = k
          /\ Successful(seen[r][k])
          /\ \A i \in 1 .. (k - 1) : RetryableFailure(seen[r][i]) )
        => /\ EndsWith(r, k, "ok")
           /\ "upstream" \in DOMAIN out[r].body
           /\ out[r].body.upstream = Json(seen[r][k].body)

C2_Witness ==
    \E r \in Reqs :
        /\ Len(seen[r]) = 3
        /\ Raises(seen[r][1], "ConnectError")
        /\ HasStatus(seen[r][2], 503)
        /\ seen[r][3] = Resp(201, JsonRecovered)
        /\ EndsWith(r, 3, "ok")
        /\ out[r].body.upstream = [msg |-> "recovered"]

(* C3: a failure status outside {500,502,503,504} is never retried: on
   whichever attempt it arrives the request stops at once with status
   "upstream_error" and no further call; on the first attempt retries = 0. *)
C3_NonRetryableStatusStops ==
    \A r \in Reqs :
        (Len(seen[r]) >= 1 /\ NonRetryableStatus(Last(r)))
        => /\ EndsWith(r, Len(seen[r]), "upstream_error")
           /\ Len(seen[r]) = 1 => out[r].body.retries = 0

C3_Witness ==
    \E r \in Reqs :
        /\ Len(seen[r]) = 2
        /\ HasStatus(seen[r][1], 503)
        /\ HasStatus(seen[r][2], 501)
        /\ EndsWith(r, 2, "upstream_error")

(* C4: three identical retryable failures end the request after exactly 3
   calls with retries = 2: ConnectError gives "upstream_unreachable",
   ReadTimeout gives "timeout", status 503 gives "upstream_error"; after
   only one or two of them the request is still running. *)
C4_SameFailureThrice ==
    \A r \in Reqs :
        LET n == Len(seen[r])
            Verdict(status) ==
                IF n < 3 THEN InFlight(r) ELSE EndsWith(r, 3, status)
        IN  /\ (n >= 1 /\ \A i \in 1 .. n : Raises(seen[r][i], "ConnectError"))
                => Verdict("upstream_unreachable")
            /\ (n >= 1 /\ \A i \in 1 .. n : Raises(seen[r][i], "ReadTimeout"))
                => Verdict("timeout")
            /\ (n >= 1 /\ \A i \in 1 .. n : HasStatus(seen[r][i], 503))
                => Verdict("upstream_error")

C4_Witness ==
    \E r \in Reqs :
        /\ Len(seen[r]) = 3
        /\ \A i \in 1 .. 3 : Raises(seen[r][i], "ReadTimeout")
        /\ EndsWith(r, 3, "timeout")

(* C5: on budget exhaustion with any mix of retryable failures, the status
   is decided by the third failure alone: ConnectError "upstream_unreachable",
   ReadTimeout "timeout", retryable status "upstream_error". *)
C5_LastFailureDecides ==
    \A r \in Reqs :
        (Len(seen[r]) = 3 /\ \A i \in 1 .. 3 : RetryableFailure(seen[r][i]))
        => EndsWith(r, 3,
               IF Raises(seen[r][3], "ConnectError") THEN "upstream_unreachable"
               ELSE IF Raises(seen[r][3], "ReadTimeout") THEN "timeout"
               ELSE "upstream_error")

C5_Witness ==
    \E r \in Reqs :
        /\ Len(seen[r]) = 3
        /\ HasStatus(seen[r][1], 503)
        /\ HasStatus(seen[r][2], 503)
        /\ Raises(seen[r][3], "ConnectError")
        /\ EndsWith(r, 3, "upstream_unreachable")

(* C6: for each s in {500,502,503,504}, a first response with status s is
   retried, and when the second response is successful the request ends
   after exactly 2 calls with retries = 1 and status "ok". *)
C6_RetryableStatusThenSuccess ==
    \A r \in Reqs : \A s \in {500, 502, 503, 504} :
        (Len(seen[r]) >= 1 /\ HasStatus(seen[r][1], s))
        => /\ Len(seen[r]) = 1 => InFlight(r)
           /\ (Len(seen[r]) = 2 /\ Successful(seen[r][2])) => EndsWith(r, 2, "ok")

C6_Witness ==
    \E r \in Reqs :
        /\ Len(seen[r]) = 2
        /\ HasStatus(seen[r][1], 504)
        /\ Successful(seen[r][2])
        /\ EndsWith(r, 2, "ok")

(* C7: every failure becomes a terminal outcome inside the handler: for
   every upstream behaviour the caller receives a well-formed body whose
   status is one of the four names; no exception leaves the handler. *)
C7_NoExceptionEscapes ==
    \A r \in Reqs :
        pc[r] = "STOP"
        => /\ out[r].kind = "body"
           /\ out[r].body.status \in StatusNames

(* C8: an attempt ended by the 5-second timeout in any phase of the
   transport (connect, write, read, pool) or by cancellation is classified
   as a Timeout failure: retried while budget remains, and status "timeout"
   when it is the last attempt. *)
C8_EveryTimeoutIsTimeout ==
    \A r \in Reqs :
        ( /\ Len(seen[r]) >= 1
          /\ Last(r).kind = "exception"
          /\ Last(r).exc \in {"ReadTimeout", "ConnectTimeout", "WriteTimeout",
                              "PoolTimeout", "CancelledError"} )
        => IF Len(seen[r]) < 3 THEN InFlight(r) ELSE EndsWith(r, 3, "timeout")

(* C9: every body returned by GET / has source, elapsed_ms, status and
   retries; status is one of the four names, as the outcome mapping gives
   it; upstream is present iff status is "ok", error iff it is not. *)
C9_BodyShape ==
    \A r \in Reqs :
        out[r].kind = "body"
        => LET body == out[r].body
               keys == DOMAIN body
           IN  /\ {"source", "elapsed_ms", "status", "retries"} \subseteq keys
               /\ body.status \in StatusNames
               /\ body.status = MappedStatus(Last(r))
               /\ ("upstream" \in keys) <=> (body.status = "ok")
               /\ ("error" \in keys) <=> (body.status # "ok")

C9_Witness ==
    \E r \in Reqs :
        /\ out[r].kind = "body"
        /\ out[r].body.status = "timeout"
        /\ DOMAIN out[r].body =
               {"source", "error", "elapsed_ms", "status", "retries"}

\* the handler run alone, start to end, against the result sequence s
RECURSIVE RunAlone(_, _)
RunAlone(s, n) ==
    LET step == RetryStep(s[n], n)
    IN  IF step.do = "sleep"
        THEN IF n < Len(s)
             THEN RunAlone(s, n + 1)
             ELSE [calls |-> n + 1, out |-> Blank]
        ELSE [calls |-> n, out |-> Finish(step, n, 0)]

(* C10: concurrent requests are independent retry sequences: in every
   interleaving each request's counter counts its own calls only, and its
   attempt count, retries and status are those of the same request run alone
   against the results it received. *)
C10_RequestsIndependent ==
    \A r \in Reqs :
        /\ attempts[r] = calls[r]
        /\ attempt_number[r] = calls[r]
        /\ calls[r] = Len(seen[r]) + (IF pc[r] = "ATTEMPT" THEN 1 ELSE 0)
        /\ pc[r] = "STOP" =>
               LET alone == RunAlone(seen[r], 1)
               IN  /\ calls[r] = alone.calls
                   /\ out[r].kind = alone.out.kind
                   /\ out[r].kind = "body" =>
                          /\ out[r].body.retries = alone.out.body.retries
                          /\ out[r].body.status = alone.out.body.status
                          /\ out[r].body.retries = Len(seen[r]) - 1

C10_Witness ==
    /\ EndsWith(1, 3, "upstream_unreachable")
    /\ pc[2] = "WAIT"
    /\ calls[2] = 1
    /\ attempts[2] = 1

(* C11: every request terminates: given that every upstream call ends and
   every inter-attempt delay elapses, a request that has started reaches
   STOP; there it holds exactly one outcome, produced by the step that
   stopped it and never replaced. *)
C11_Terminates ==
    /\ \A r \in Reqs : (pc[r] = "START") ~> (pc[r] = "STOP")
    /\ [](\A r \in Reqs : (pc[r] = "STOP") <=> (out[r].kind # "none"))
    /\ [][\A r \in Reqs : out[r].kind # "none" => out'[r] = out[r]]_vars

C11_Witness ==
    \E r \in Reqs :
        /\ pc[r] = "STOP"
        /\ calls[r] = 3
        /\ waits[r] = 2
        /\ out[r].kind = "body"

(* C12: elapsed_ms is a non-negative integer, measured from before the
   first attempt to the final decision (the rounded wall-clock time of the
   whole request), and it includes every inter-attempt delay:
   elapsed_ms >= 500 * retries, for success and failure bodies alike. *)
C12_ElapsedCoversDelays ==
    \A r \in Reqs :
        out[r].kind = "body"
        => LET ms == out[r].body.elapsed_ms
           IN  /\ ms \in Nat
               /\ ms * 1000 - elapsed[r] \in -500 .. 500
               /\ ms >= 500 * out[r].body.retries
               /\ ms >= 500 * waits[r]

C12_Witness ==
    \E r \in Reqs :
        /\ out[r].kind = "body"
        /\ out[r].body.status = "ok"
        /\ out[r].body.retries = 2
        /\ out[r].body.elapsed_ms = 1004

(* C13: GET /health answers {"status": "healthy"} with HTTP 200 in every
   state of the service, whatever the upstream does and whatever requests
   are in flight; it issues no upstream call and changes no state. *)
C13_HealthAlwaysHealthy ==
    /\ [](health_calls > 0
            => health_out = [code |-> 200, body |-> [status |-> "healthy"]])
    /\ [][health_calls' # health_calls => UNCHANGED <<request_vars, shared>>]_vars
    /\ [](health_calls < MaxHealth => ENABLED Health)

C13_Witness ==
    /\ health_calls = 2
    /\ health_out.body.status = "healthy"
    /\ \E r \in Reqs : out[r].kind = "raise"

\* the steps a request can take, as pairs of positions
MachineSteps ==
    {<<"START", "ATTEMPT">>, <<"ATTEMPT", "WAIT">>, <<"ATTEMPT", "STOP">>,
     <<"WAIT", "ATTEMPT">>}

(* C14: each request follows START -> ATTEMPT -> {STOP | WAIT -> ATTEMPT}:
   it waits only after an attempt classified retryable while fewer than 3
   attempts have been made, a wait lasts at least 500 ms and is followed by
   another attempt; there is no wait before the first attempt, after the
   third, or after a terminal classification, so the waits number the
   retries; nothing of the request changes after STOP. *)
C14_StateMachine ==
    /\ [](\A r \in Reqs :
            /\ pc[r] = "WAIT" =>
                   /\ RetryableFailure(Last(r))
                   /\ Len(seen[r]) < 3
                   /\ calls[r] = Len(seen[r])
            /\ pc[r] \in {"ATTEMPT", "WAIT", "STOP"} => waits[r] = calls[r] - 1
            /\ pc[r] = "START" => waits[r] = 0 /\ calls[r] = 0
            /\ out[r].kind = "body" => waits[r] = out[r].body.retries)
    /\ [][\A r \in Reqs :
            /\ pc'[r] # pc[r] => <<pc[r], pc'[r]>> \in MachineSteps
            /\ waits'[r] # waits[r] =>
                   /\ pc[r] = "WAIT" /\ pc'[r] = "ATTEMPT"
                   /\ waits'[r] = waits[r] + 1
                   /\ calls'[r] = calls[r] + 1
                   /\ elapsed'[r] >= elapsed[r] + 500 * 1000
            /\ calls'[r] # calls[r] => pc'[r] = "ATTEMPT" /\ pc[r] # "ATTEMPT"
            /\ pc[r] = "STOP" =>
                   /\ pc'[r] = "STOP"
                   /\ calls'[r] = calls[r] /\ waits'[r] = waits[r]
                   /\ seen'[r] = seen[r] /\ out'[r] = out[r]
                   /\ elapsed'[r] = elapsed[r]]_vars
    /\ \A r \in Reqs : (pc[r] = "WAIT") ~> (pc[r] = "ATTEMPT")

C14_Witness ==
    \E r \in Reqs :
        /\ pc[r] = "WAIT"
        /\ Len(seen[r]) = 2
        /\ waits[r] = 1
        /\ HasStatus(seen[r][1], 500)
        /\ Raises(seen[r][2], "ReadTimeout")

(* C15: the retry budget is never abandoned early: a request that ends after
   fewer than 3 attempts ended on a success or on a failure that is not
   retryable, and every retryable failure (ConnectError, ReadTimeout, status
   in {500,502,503,504}) on attempt 1 or 2 is followed by another upstream
   attempt. *)
C15_BudgetNotAbandoned ==
    /\ [](\A r \in Reqs :
            (pc[r] = "STOP" /\ calls[r] < 3) => ~RetryableFailure(Last(r)))
    /\ \A r \in Reqs : \A k \in 1 .. 2 :
           (Len(seen[r]) = k /\ RetryableFailure(seen[r][k])) ~> (calls[r] = k + 1)

C15_Witness ==
    \E r \in Reqs :
        /\ pc[r] = "ATTEMPT"
        /\ calls[r] = 3
        /\ Raises(seen[r][1], "ReadTimeout")
        /\ HasStatus(seen[r][2], 503)

\* the budget is exhausted and the last attempt returned a retryable status
ExhaustedOnStatus(r) ==
    /\ pc[r] = "STOP"
    /\ Len(seen[r]) = 3
    /\ Last(r).kind = "response"
    /\ Last(r).code \in {500, 502, 503, 504}

(* C16: when the budget is exhausted and the last attempt was a response
   with a retryable status code, the error detail of the terminal
   "upstream_error" identifies that status code, as it does for a status
   that is not retryable. *)
C16_ExhaustedDetailNamesCode ==
    \A r \in Reqs :
        ExhaustedOnStatus(r)
        => /\ out[r].kind = "body"
           /\ out[r].body.status = "upstream_error"
           /\ out[r].body.error.code = Last(r).code

(* C16 as the code has it: on exhaustion after a retryable status the body
   has status "upstream_error" and the fixed detail "Upstream returned
   server error after retries", which names no status code; the detail
   names the code only for a status that is not retryable. *)
C16_ExhaustedDetailIsGeneric ==
    \A r \in Reqs :
        /\ ExhaustedOnStatus(r)
           => /\ out[r].kind = "body"
              /\ out[r].body.status = "upstream_error"
              /\ out[r].body.error =
                     [text |-> "Upstream returned server error after retries",
                      code |-> 0, msg |-> ""]
        /\ (pc[r] = "STOP" /\ Last(r).kind = "response"
                /\ Last(r).code \notin 200 .. 299
                /\ Last(r).code \notin {500, 502, 503, 504})
           => /\ out[r].kind = "body"
              /\ out[r].body.error =
                     [text |-> "Upstream returned ", code |-> Last(r).code,
                      msg |-> ""]

C16_Witness ==
    \E r \in Reqs :
        /\ ExhaustedOnStatus(r)
        /\ Raises(seen[r][1], "ConnectError")
        /\ Last(r).code = 502
        /\ out[r].body.error.text = "Upstream returned server error after retries"

\* everything request q owns
Own(q) ==
    <<pc[q], attempts[q], attempt_number[q], calls[q], seen[q], waits[q],
      elapsed[q], out[q]>>

(* C17: handling a request never modifies the retry policy or the shared
   configuration: the retryable set {500,502,503,504}, max_attempts = 3, the
   500 ms delay, the upstream URL and the http_client reference are the same
   after every step of every request; a step of a request changes only that
   request's own counter and result variables. *)
C17_SharedConfigUntouched ==
    /\ [](/\ shared.RETRYABLE_STATUS_CODES = {500, 502, 503, 504}
          /\ shared.stop = 3
          /\ shared.wait = 500 * 1000
          /\ shared.UPSTREAM_URL = "http://go-upstream:7000"
          /\ shared.http_client = "AsyncClient(timeout=5.0)")
    /\ [][shared' = shared]_vars
    /\ [][\A r \in Reqs :
            pc'[r] # pc[r] => \A q \in Reqs \ {r} : Own(q)' = Own(q)]_vars

C17_Witness ==
    /\ EndsWith(1, 3, "upstream_error")
    /\ EndsWith(2, 2, "ok")
    /\ shared = SharedConfig

(* C18: status "ok" is reported only if the final attempt returned a 2xx
   response; a 1xx or 3xx response is neither retried nor taken as success:
   it ends the request at once with status "upstream_error"; a request whose
   final attempt raised a transport error never reports "ok". *)
C18_OkOnly2xx ==
    \A r \in Reqs :
        /\ (out[r].kind = "body" /\ out[r].body.status = "ok")
           => /\ Last(r).kind = "response"
              /\ Last(r).code \in 200 .. 299
        /\ (Len(seen[r]) >= 1 /\ Last(r).kind = "response"
                /\ Last(r).code \in (100 .. 199) \cup (300 .. 399))
           => EndsWith(r, Len(seen[r]), "upstream_error")
        /\ (pc[r] = "STOP" /\ Last(r).kind = "exception")
           => ~(out[r].kind = "body" /\ out[r].body.status = "ok")

C18_Witness ==
    \E r \in Reqs :
        /\ Len(seen[r]) = 2
        /\ HasStatus(seen[r][1], 503)
        /\ seen[r][2] = Resp(301, JsonHello)
        /\ EndsWith(r, 2, "upstream_error")
        /\ out[r].body.error.code = 301

====
